---- MODULE Spec2Model ----
(***************************************************************************)
(* The Pratt expression parser of kmonkey (src/src/parser/expr.rs) as a    *)
(* state machine.  The recursive descent is unfolded into an explicit call *)
(* stack: every action is the code of one function between two of the      *)
(* calls it makes.  The lexer is pulled lazily by next_token, so the       *)
(* source text is chosen token by token as the parser asks for it.         *)
(***************************************************************************)
EXTENDS Integers, Sequences, FiniteSets, TLC

(***************************************************************************)
(* Tokens (src/src/token.rs).  A token is its variant plus the payload of  *)
(* IDENT (str) or INT (int).                                               *)
(***************************************************************************)
TokenTypes ==
  { "ILLEGAL", "EOF", "IDENT", "INT", "ASSIGN", "PLUS", "MINUS", "BANG",
    "ASTERISK", "SLASH", "LT", "GT", "EQ", "NotEq", "COMMA", "SEMICOLON",
    "LPAREN", "RPAREN", "LBRACE", "RBRACE", "FUNCTION", "LET", "TRUE",
    "FALSE", "IF", "ELSE", "RETURN" }

Tok(ty) == [type |-> ty, str |-> "", int |-> 0]

IDENT(s) == [type |-> "IDENT", str |-> s, int |-> 0]

INT(n) == [type |-> "INT", str |-> "", int |-> n]

EOF == Tok("EOF")

\* Token::is: same variant, payload ignored.
Is(tok, ty) == tok.type = ty

\* #[derive(Debug)] on Token, as used by format!("{:?}").
DebugToken(tok) ==
  CASE tok.type = "IDENT" -> "IDENT(\"" \o tok.str \o "\")"
    [] tok.type = "INT" -> "INT(" \o ToString(tok.int) \o ")"
    [] OTHER -> tok.type

(***************************************************************************)
(* BinaryOperator: the precedence levels, lowest to highest.               *)
(***************************************************************************)
Lowest == 0

Equals == 1

LtGt == 2

Sum == 3

Product == 4

Prefix == 5

Call == 6

to_binary_operator_flat(tok) ==
  CASE tok.type \in {"EQ", "NotEq"} -> Equals
    [] tok.type \in {"LT", "GT"} -> LtGt
    [] tok.type \in {"PLUS", "MINUS", "ASTERISK", "SLASH"} -> Sum
    [] OTHER -> Lowest

to_binary_operator(tok) ==
  CASE tok.type \in {"EQ", "NotEq"} -> Equals
    [] tok.type \in {"LT", "GT"} -> LtGt
    [] tok.type \in {"PLUS", "MINUS"} -> Sum
    [] tok.type \in {"ASTERISK", "SLASH"} -> Product
    [] OTHER -> Lowest

(***************************************************************************)
(* AST nodes.  Option<T> is a sequence of length 0 (None) or 1 (Some).     *)
(***************************************************************************)
None == <<>>

Some(v) == <<v>>

IsSome(o) == Len(o) = 1

Unwrap(o) == o[1]

Identifier(s) == [node |-> "Identifier", value |-> s]

Integer(n) == [node |-> "Integer", value |-> n]

Boolean(b) == [node |-> "Boolean", value |-> b]

PrefixExpression(operator, right) ==
  [node |-> "Prefix", operator |-> operator, right |-> right]

InfixExpression(left, operator, right) ==
  [node |-> "Infix", left |-> left, operator |-> operator, right |-> right]

IfExpression(condition, consequence, alternative) ==
  [node |-> "If", condition |-> condition, consequence |-> consequence,
   alternative |-> alternative]

BlockStatement(statements) == [statements |-> statements]

ExpressionStatement(expr) == [stmt |-> "Expr", value |-> expr]

(***************************************************************************)
(* The operator of an infix / prefix node, by the token it was read from.  *)
(***************************************************************************)
InfixTokens ==
  {"PLUS", "MINUS", "SLASH", "ASTERISK", "GT", "LT", "EQ", "NotEq"}

InfixOfSwapped(tok) ==
  CASE tok.type = "PLUS" -> "Plus"
    [] tok.type = "MINUS" -> "Minus"
    [] tok.type = "SLASH" -> "Slash"
    [] tok.type = "ASTERISK" -> "Asterisk"
    [] tok.type = "GT" -> "Lt"
    [] tok.type = "LT" -> "Gt"
    [] tok.type = "EQ" -> "Equal"
    [] tok.type = "NotEq" -> "NotEq"

InfixOf(tok) ==
  CASE tok.type = "PLUS" -> "Plus"
    [] tok.type = "MINUS" -> "Minus"
    [] tok.type = "SLASH" -> "Slash"
    [] tok.type = "ASTERISK" -> "Asterisk"
    [] tok.type = "GT" -> "Gt"
    [] tok.type = "LT" -> "Lt"
    [] tok.type = "EQ" -> "Equal"
    [] tok.type = "NotEq" -> "NotEq"

PrefixTokens == {"MINUS", "BANG"}

PrefixOf(tok) ==
  CASE tok.type = "MINUS" -> "Minus"
    [] tok.type = "BANG" -> "Bang"

\* The tokens parse_prefix turns into an identifier or a literal.
AtomTokens == {"IDENT", "INT", "TRUE", "FALSE"}

(***************************************************************************)
(* Canonical rendering of the AST (the Display implementations).           *)
(***************************************************************************)
InfixSymbol(operator) ==
  CASE operator = "Plus" -> "+"
    [] operator = "Minus" -> "-"
    [] operator = "Slash" -> "/"
    [] operator = "Asterisk" -> "*"
    [] operator = "Gt" -> ">"
    [] operator = "Lt" -> "<"
    [] operator = "Equal" -> "=="
    [] operator = "NotEq" -> "!="

PrefixSymbol(operator) ==
  CASE operator = "Minus" -> "-"
    [] operator = "Bang" -> "!"

RECURSIVE Render(_)
Render(e) ==
  CASE e.node = "Identifier" -> e.value
    [] e.node = "Integer" -> ToString(e.value)
    [] e.node = "Boolean" -> IF e.value THEN "true" ELSE "false"
    [] e.node = "Prefix" ->
         "(" \o PrefixSymbol(e.operator) \o Render(e.right) \o ")"
    [] e.node = "Infix" ->
         "(" \o Render(e.left) \o " " \o InfixSymbol(e.operator) \o " "
             \o Render(e.right) \o ")"

RECURSIVE RenderProgram(_)
RenderProgram(stmts) ==
  IF stmts = <<>> THEN ""
  ELSE Render(Head(stmts).value) \o RenderProgram(Tail(stmts))

(***************************************************************************)
(* The source text, as the token sequences the lexer may produce.  A shape *)
(* is a sequence of token sets; the lexer may yield any sequence that      *)
(* follows a prefix of a shape position by position, then EOF forever.     *)
(***************************************************************************)
MaxLen == 4

Atoms1 == {IDENT("a"), INT(1), Tok("TRUE")}

Atoms2 == {IDENT("b"), Tok("FALSE")}

Atoms3 == {IDENT("c"), INT(3)}

InfixOps == {Tok(ty) : ty \in InfixTokens}

PrefixOps == {Tok(ty) : ty \in PrefixTokens}

FewOps == {Tok("PLUS"), Tok("ASTERISK"), Tok("EQ")}

AllTokens == {Tok(ty) : ty \in TokenTypes \ {"IDENT", "INT", "EOF"}}
               \cup {IDENT("a"), INT(1)}

FreeTokens ==
  {IDENT("x"), Tok("PLUS"), Tok("ASTERISK"), Tok("MINUS"), Tok("LPAREN"),
   Tok("RPAREN"), Tok("SEMICOLON")}

One(ty) == {Tok(ty)}

Shapes ==
  { [i \in 1..MaxLen |-> FreeTokens],
    \* a op b op c ;
    <<Atoms1, InfixOps, Atoms2, InfixOps, Atoms3, One("SEMICOLON")>>,
    \* p a op b   and   p p a op b
    <<PrefixOps, Atoms1, InfixOps, Atoms2>>,
    <<PrefixOps, PrefixOps, Atoms1, InfixOps, Atoms2>>,
    \* ( a op b ) op c   and   a op ( b op c )
    <<One("LPAREN"), {IDENT("a")}, InfixOps, {INT(2)}, One("RPAREN"),
      InfixOps, {IDENT("c")}>>,
    <<{IDENT("a")}, InfixOps, One("LPAREN"), {INT(2)}, InfixOps,
      {IDENT("c")}, One("RPAREN")>>,
    \* 3 op 4 ; p 5 op 5
    <<{INT(3), IDENT("a")}, FewOps, {INT(4)}, One("SEMICOLON"), PrefixOps,
      {INT(5)}, FewOps, {INT(5), Tok("TRUE")}>>,
    \* an unrecognised character, then a statement
    <<One("ILLEGAL"), {IDENT("x"), INT(5)}>>,
    \* any token where an expression must start
    <<AllTokens \ {Tok("LET"), Tok("RETURN")}>>,
    <<One("LPAREN") \cup PrefixOps, AllTokens>>,
    <<Atoms1, InfixOps, AllTokens>>,
    \* if ( x op y ) { x } else { y } ;   and what goes wrong in it
    <<One("IF"), One("LPAREN"), {IDENT("x")}, {Tok("LT"), Tok("EQ")},
      {IDENT("y")}, One("RPAREN"), One("LBRACE"),
      {IDENT("x"), Tok("RBRACE")}, {Tok("RBRACE"), Tok("SEMICOLON")},
      {Tok("ELSE"), Tok("SEMICOLON"), IDENT("y")},
      {Tok("LBRACE"), IDENT("y"), Tok("IF")}, {IDENT("y"), Tok("RBRACE")},
      One("RBRACE"), One("SEMICOLON")>>,
    <<One("IF"), {IDENT("x"), Tok("LBRACE")}>>,
    <<One("IF"), One("LPAREN"), {IDENT("x")}, {Tok("LT")}, {IDENT("y")},
      {Tok("SEMICOLON"), Tok("LBRACE")}>>,
    <<One("IF"), One("LPAREN"), {IDENT("x")}, {Tok("LT")}, {IDENT("y")},
      One("RPAREN"), {IDENT("x"), Tok("SEMICOLON")}>>,
    \* if ( a ) { if ( b ) { c } else { d } } else { e } + f
    <<One("IF"), One("LPAREN"), Atoms1, One("RPAREN"), One("LBRACE"),
      One("IF"), One("LPAREN"), Atoms2, One("RPAREN"), One("LBRACE"),
      {IDENT("c")}, One("RBRACE"), One("ELSE"), One("LBRACE"), {IDENT("d")},
      One("RBRACE"), One("RBRACE"), One("ELSE"), One("LBRACE"),
      {IDENT("e")}, One("RBRACE"), One("PLUS"), {IDENT("f")}>> }

ShapeTokens == UNION {{sh[i] : i \in 1..Len(sh)} : sh \in Shapes}

Allowed(toks) ==
  \E sh \in Shapes :
    /\ Len(toks) <= Len(sh)
    /\ \A i \in 1..Len(toks) : toks[i] \in sh[i]

VARIABLES lexed, exhausted, current_token, peek_token, errors, stack, ret,
          program

vars ==
  <<lexed, exhausted, current_token, peek_token, errors, stack, ret,
    program>>

(***************************************************************************)
(* Lexer::next_token: the tokens it may return next.  lexed is the text    *)
(* produced so far (EOF left out); once EOF was returned it is returned    *)
(* forever.                                                                *)
(***************************************************************************)
LexerNext(lx, ex) ==
  IF ex THEN {EOF}
  ELSE {EOF} \cup {t \in UNION ShapeTokens : Allowed(Append(lx, t))}

LexedAfter(lx, t) == IF t = EOF THEN lx ELSE Append(lx, t)

\* Parser::next_token, t being what the lexer returns.
next_token(t) ==
  /\ current_token' = peek_token
  /\ peek_token' = t
  /\ lexed' = LexedAfter(lexed, t)
  /\ exhausted' = (t = EOF)

\* Two calls of Parser::next_token in a row.
next_token2(t1, t2) ==
  /\ current_token' = t1
  /\ peek_token' = t2
  /\ lexed' = LexedAfter(LexedAfter(lexed, t1), t2)
  /\ exhausted' = (t2 = EOF)

NoAdvance == UNCHANGED <<lexed, exhausted, current_token, peek_token>>

\* The message Parser::expect_peek records when the peek token is not ty.
PeekError(ty, tok) ==
  "expected next token to be " \o ty \o ", got " \o DebugToken(tok)
    \o " instead"

\* The message of Parser::no_prefix_parse_error.
NoPrefixMsg(tok) == "no prefix parse function for " \o DebugToken(tok)

(***************************************************************************)
(* The call stack.                                                         *)
(***************************************************************************)
Top == stack[Len(stack)]

Below == SubSeq(stack, 1, Len(stack) - 1)

At(fn, pc) == stack # <<>> /\ Top.fn = fn /\ Top.pc = pc

Goto(frame) == stack' = Append(Below, frame) /\ ret' = None

CallFrom(frame, callee) ==
  stack' = Append(Append(Below, frame), callee) /\ ret' = None

\* ret is the returned value: None or Some(v); a block is returned as
\* Some(block).
Return(v) == stack' = Below /\ ret' = v

Done == stack = <<>>

ProgramFrame == [fn |-> "parse_program", pc |-> "loop"]

StatementFrame == [fn |-> "parse_statement", pc |-> "entry"]

BlockFrame ==
  [fn |-> "parse_block_statement", pc |-> "entry", statements |-> <<>>]

\* errors_at_entry is the length of the error list when the call is made;
\* no action reads it.
ExpressionFrame(op) ==
  [fn |-> "parse_expression", pc |-> "entry", op |-> op, left |-> None,
   errors_at_entry |-> Len(errors)]

InfixFrame(left) ==
  [fn |-> "parse_infix", pc |-> "entry", left |-> left, operator |-> ""]

PrefixFrame == [fn |-> "parse_prefix_expression", pc |-> "entry",
                operator |-> ""]

GroupedFrame == [fn |-> "parse_grouped_expression", pc |-> "entry"]

IfFrame ==
  [fn |-> "parse_if_expression", pc |-> "entry", condition |-> None,
   consequence |-> None]

\* Parser::new reads the first two tokens.
Init ==
  /\ \E t1 \in LexerNext(<<>>, FALSE) :
       \E t2 \in LexerNext(LexedAfter(<<>>, t1), t1 = EOF) :
         /\ current_token = t1
         /\ peek_token = t2
         /\ lexed = LexedAfter(LexedAfter(<<>>, t1), t2)
         /\ exhausted = (t2 = EOF)
  /\ errors = <<>>
  /\ stack = <<ProgramFrame>>
  /\ ret = None
  /\ program = <<>>

(***************************************************************************)
(* Parser::parse_program: parse statements until EOF.                      *)
(***************************************************************************)
parse_program_loop ==
  /\ At("parse_program", "loop")
  /\ IF current_token # EOF
       THEN CallFrom([Top EXCEPT !.pc = "after"], StatementFrame)
       ELSE Return(None)
  /\ NoAdvance
  /\ UNCHANGED <<errors, program>>

parse_program_after ==
  /\ At("parse_program", "after")
  /\ program' = IF IsSome(ret) THEN Append(program, Unwrap(ret)) ELSE program
  /\ \E t \in LexerNext(lexed, exhausted) : next_token(t)
  /\ Goto([Top EXCEPT !.pc = "loop"])
  /\ UNCHANGED errors

(***************************************************************************)
(* Parser::parse_statement for an expression statement: the expression at  *)
(* Lowest precedence, then an optional SEMICOLON.                          *)
(***************************************************************************)
parse_statement_entry ==
  /\ At("parse_statement", "entry")
  /\ CallFrom([Top EXCEPT !.pc = "after"], ExpressionFrame(Lowest))
  /\ NoAdvance
  /\ UNCHANGED <<errors, program>>

parse_statement_after ==
  /\ At("parse_statement", "after")
  /\ IF IsSome(ret)
       THEN /\ IF Is(peek_token, "SEMICOLON")
                 THEN \E t \in LexerNext(lexed, exhausted) : next_token(t)
                 ELSE NoAdvance
            /\ Return(Some(ExpressionStatement(Unwrap(ret))))
       ELSE NoAdvance /\ Return(None)
  /\ UNCHANGED <<errors, program>>

(***************************************************************************)
(* Parser::parse_expression(op).                                           *)
(***************************************************************************)
\* parse_identifier, parse_integer_literal, parse_boolean_literal
AtomOf(tok) ==
  CASE tok.type = "IDENT" -> Identifier(tok.str)
    [] tok.type = "INT" -> Integer(tok.int)
    [] tok.type \in {"TRUE", "FALSE"} -> Boolean(tok = Tok("TRUE"))

no_prefix_parse_error_silent == UNCHANGED errors

no_prefix_parse_error_overwrite == errors' = <<NoPrefixMsg(current_token)>>

no_prefix_parse_error ==
  errors' = Append(errors, NoPrefixMsg(current_token))

\* parse_expression up to the return of parse_prefix (lines 22-25, 38-51)
parse_prefix ==
  /\ At("parse_expression", "entry")
  /\ CASE current_token.type \in AtomTokens ->
            /\ Goto([Top EXCEPT !.pc = "loop",
                                !.left = Some(AtomOf(current_token))])
            /\ UNCHANGED errors
       [] current_token.type \in PrefixTokens ->
            /\ CallFrom([Top EXCEPT !.pc = "prefix_done"], PrefixFrame)
            /\ UNCHANGED errors
       [] current_token.type = "LPAREN" ->
            /\ CallFrom([Top EXCEPT !.pc = "prefix_done"], GroupedFrame)
            /\ UNCHANGED errors
       [] current_token.type = "IF" ->
            /\ CallFrom([Top EXCEPT !.pc = "prefix_done"], IfFrame)
            /\ UNCHANGED errors
       [] OTHER ->
            /\ no_prefix_parse_error
            /\ Return(None)
  /\ NoAdvance
  /\ UNCHANGED program

\* the match on what parse_prefix returned (lines 22-25)
parse_expression_prefix_done ==
  /\ At("parse_expression", "prefix_done")
  /\ IF IsSome(ret)
       THEN Goto([Top EXCEPT !.pc = "loop", !.left = ret])
       ELSE Return(None)
  /\ NoAdvance
  /\ UNCHANGED <<errors, program>>

LoopContinuesLoose(op, peek) ==
  ~Is(peek, "SEMICOLON") /\ op <= to_binary_operator(peek)

\* the condition of the while loop (line 27)
LoopContinues(op, peek) ==
  ~Is(peek, "SEMICOLON") /\ op < to_binary_operator(peek)

parse_expression_loop_no_advance ==
  /\ At("parse_expression", "loop")
  /\ IF LoopContinues(Top.op, peek_token)
       THEN CallFrom([Top EXCEPT !.pc = "infix_done"],
                     InfixFrame(Unwrap(Top.left)))
       ELSE Return(Top.left)
  /\ NoAdvance
  /\ UNCHANGED <<errors, program>>

\* one test of the loop condition, and the loop body up to the call of
\* parse_infix (lines 27-29) or the final Some(left) (line 35)
parse_expression_loop ==
  /\ At("parse_expression", "loop")
  /\ IF LoopContinues(Top.op, peek_token)
       THEN /\ \E t \in LexerNext(lexed, exhausted) : next_token(t)
            /\ CallFrom([Top EXCEPT !.pc = "infix_done"],
                        InfixFrame(Unwrap(Top.left)))
       ELSE /\ NoAdvance
            /\ Return(Top.left)
  /\ UNCHANGED <<errors, program>>

\* the match on what parse_infix returned (lines 29-32)
parse_expression_infix_done ==
  /\ At("parse_expression", "infix_done")
  /\ IF IsSome(ret)
       THEN Goto([Top EXCEPT !.pc = "loop", !.left = ret])
       ELSE Return(None)
  /\ NoAdvance
  /\ UNCHANGED <<errors, program>>

(***************************************************************************)
(* Parser::parse_infix(left).                                              *)
(***************************************************************************)
RightPrecedenceLowest(tok) == Lowest

\* the precedence the right operand is parsed at (line 66)
RightPrecedence(tok) == to_binary_operator(tok)

parse_infix_entry ==
  /\ At("parse_infix", "entry")
  /\ IF current_token.type \in InfixTokens
       THEN /\ \E t \in LexerNext(lexed, exhausted) : next_token(t)
            /\ CallFrom([Top EXCEPT !.pc = "right_done",
                                    !.operator = InfixOf(current_token)],
                        ExpressionFrame(RightPrecedence(current_token)))
       ELSE /\ NoAdvance
            /\ Return(None)
  /\ UNCHANGED <<errors, program>>

parse_infix_right_done ==
  /\ At("parse_infix", "right_done")
  /\ IF IsSome(ret)
       THEN Return(Some(InfixExpression(Top.left, Top.operator, Unwrap(ret))))
       ELSE Return(None)
  /\ NoAdvance
  /\ UNCHANGED <<errors, program>>

(***************************************************************************)
(* Parser::parse_prefix_expression.                                        *)
(***************************************************************************)
OperandPrecedenceLowest == Lowest

\* the precedence the operand of a prefix operator is parsed at (line 115)
OperandPrecedence == Prefix

parse_prefix_expression_entry ==
  /\ At("parse_prefix_expression", "entry")
  /\ IF current_token.type \in PrefixTokens
       THEN /\ \E t \in LexerNext(lexed, exhausted) : next_token(t)
            /\ CallFrom([Top EXCEPT !.pc = "right_done",
                                    !.operator = PrefixOf(current_token)],
                        ExpressionFrame(OperandPrecedence))
            /\ UNCHANGED errors
       ELSE /\ NoAdvance
            /\ no_prefix_parse_error
            /\ Return(None)
  /\ UNCHANGED program

parse_prefix_expression_right_done ==
  /\ At("parse_prefix_expression", "right_done")
  /\ IF IsSome(ret)
       THEN Return(Some(PrefixExpression(Top.operator, Unwrap(ret))))
       ELSE Return(None)
  /\ NoAdvance
  /\ UNCHANGED <<errors, program>>

(***************************************************************************)
(* Parser::parse_grouped_expression.                                       *)
(***************************************************************************)
GroupPrecedencePrefix == Prefix

\* the precedence the inside of a group is parsed at (line 126)
GroupPrecedence == Lowest

parse_grouped_expression_entry ==
  /\ At("parse_grouped_expression", "entry")
  /\ \E t \in LexerNext(lexed, exhausted) : next_token(t)
  /\ CallFrom([Top EXCEPT !.pc = "inner_done"],
              ExpressionFrame(GroupPrecedence))
  /\ UNCHANGED <<errors, program>>

parse_grouped_expression_lenient ==
  /\ At("parse_grouped_expression", "inner_done")
  /\ IF Is(peek_token, "RPAREN")
       THEN /\ \E t \in LexerNext(lexed, exhausted) : next_token(t)
            /\ UNCHANGED errors
       ELSE /\ NoAdvance
            /\ errors' = Append(errors, PeekError("RPAREN", peek_token))
  /\ Return(ret)
  /\ UNCHANGED program

\* expect_peek(RPAREN) and the result (lines 128-132)
parse_grouped_expression_inner_done ==
  /\ At("parse_grouped_expression", "inner_done")
  /\ IF Is(peek_token, "RPAREN")
       THEN /\ \E t \in LexerNext(lexed, exhausted) : next_token(t)
            /\ UNCHANGED errors
            /\ Return(ret)
       ELSE /\ NoAdvance
            /\ errors' = Append(errors, PeekError("RPAREN", peek_token))
            /\ Return(None)
  /\ UNCHANGED program

(***************************************************************************)
(* Parser::parse_block_statement: statements up to RBRACE or EOF.          *)
(***************************************************************************)
parse_block_statement_entry ==
  /\ At("parse_block_statement", "entry")
  /\ \E t \in LexerNext(lexed, exhausted) : next_token(t)
  /\ Goto([Top EXCEPT !.pc = "loop"])
  /\ UNCHANGED <<errors, program>>

parse_block_statement_loop ==
  /\ At("parse_block_statement", "loop")
  /\ IF ~Is(current_token, "RBRACE") /\ current_token # EOF
       THEN CallFrom([Top EXCEPT !.pc = "after"], StatementFrame)
       ELSE Return(Some(BlockStatement(Top.statements)))
  /\ NoAdvance
  /\ UNCHANGED <<errors, program>>

parse_block_statement_after ==
  /\ At("parse_block_statement", "after")
  /\ \E t \in LexerNext(lexed, exhausted) : next_token(t)
  /\ Goto([Top EXCEPT !.pc = "loop",
                      !.statements =
                        IF IsSome(ret) THEN Append(@, Unwrap(ret)) ELSE @])
  /\ UNCHANGED <<errors, program>>

(***************************************************************************)
(* Parser::parse_if_expression.                                            *)
(***************************************************************************)
\* expect_peek(LPAREN), next_token, the call for the condition
\* (lines 136-142)
parse_if_expression_entry ==
  /\ At("parse_if_expression", "entry")
  /\ IF Is(peek_token, "LPAREN")
       THEN /\ \E t1 \in LexerNext(lexed, exhausted) :
                 \E t2 \in LexerNext(LexedAfter(lexed, t1), t1 = EOF) :
                   next_token2(t1, t2)
            /\ CallFrom([Top EXCEPT !.pc = "condition_done"],
                        ExpressionFrame(Lowest))
            /\ UNCHANGED errors
       ELSE /\ NoAdvance
            /\ errors' = Append(errors, PeekError("LPAREN", peek_token))
            /\ Return(None)
  /\ UNCHANGED program

\* the match on the condition, expect_peek(RPAREN), expect_peek(LBRACE),
\* the call for the consequence (lines 142-155)
parse_if_expression_condition_done ==
  /\ At("parse_if_expression", "condition_done")
  /\ CASE ~IsSome(ret) ->
            /\ NoAdvance
            /\ UNCHANGED errors
            /\ Return(None)
       [] IsSome(ret) /\ ~Is(peek_token, "RPAREN") ->
            /\ NoAdvance
            /\ errors' = Append(errors, PeekError("RPAREN", peek_token))
            /\ Return(None)
       [] IsSome(ret) /\ Is(peek_token, "RPAREN") ->
            \E t1 \in LexerNext(lexed, exhausted) :
              IF Is(t1, "LBRACE")
                THEN /\ \E t2 \in LexerNext(LexedAfter(lexed, t1), FALSE) :
                          next_token2(t1, t2)
                     /\ UNCHANGED errors
                     /\ CallFrom([Top EXCEPT !.pc = "consequence_done",
                                             !.condition = ret],
                                 BlockFrame)
                ELSE /\ next_token(t1)
                     /\ errors' = Append(errors, PeekError("LBRACE", t1))
                     /\ Return(None)
  /\ UNCHANGED program

ElseError == Append(errors, PeekError("ELSE", peek_token))

\* a missing ELSE records nothing (lines 157-159, 165-167)
ElseErrors == errors

AlternativeDropped(block) == None

\* the alternative of the node built at lines 169-173
Alternative(block) == block

\* the ELSE lookahead, expect_peek(LBRACE), the call for the alternative or
\* the node without one (lines 159-173)
parse_if_expression_consequence_done ==
  /\ At("parse_if_expression", "consequence_done")
  /\ IF Is(peek_token, "ELSE")
       THEN \E t1 \in LexerNext(lexed, exhausted) :
              IF Is(t1, "LBRACE")
                THEN /\ \E t2 \in LexerNext(LexedAfter(lexed, t1), FALSE) :
                          next_token2(t1, t2)
                     /\ UNCHANGED errors
                     /\ CallFrom([Top EXCEPT !.pc = "alternative_done",
                                             !.consequence = ret],
                                 BlockFrame)
                ELSE /\ next_token(t1)
                     /\ errors' = Append(errors, PeekError("LBRACE", t1))
                     /\ Return(None)
       ELSE /\ NoAdvance
            /\ errors' = ElseErrors
            /\ Return(Some(IfExpression(Unwrap(Top.condition), Unwrap(ret),
                                        None)))
  /\ UNCHANGED program

\* the node with an alternative (lines 164, 169-173)
parse_if_expression_alternative_done ==
  /\ At("parse_if_expression", "alternative_done")
  /\ Return(Some(IfExpression(Unwrap(Top.condition),
                              Unwrap(Top.consequence), Alternative(ret))))
  /\ NoAdvance
  /\ UNCHANGED <<errors, program>>

Next ==
  \/ parse_program_loop
  \/ parse_program_after
  \/ parse_statement_entry
  \/ parse_statement_after
  \/ parse_prefix
  \/ parse_expression_prefix_done
  \/ parse_expression_loop
  \/ parse_expression_infix_done
  \/ parse_infix_entry
  \/ parse_infix_right_done
  \/ parse_prefix_expression_entry
  \/ parse_prefix_expression_right_done
  \/ parse_grouped_expression_entry
  \/ parse_grouped_expression_inner_done
  \/ parse_block_statement_entry
  \/ parse_block_statement_loop
  \/ parse_block_statement_after
  \/ parse_if_expression_entry
  \/ parse_if_expression_condition_done
  \/ parse_if_expression_consequence_done
  \/ parse_if_expression_alternative_done

Spec == Init /\ [][Next]_vars

\* The parser is one sequential program: while a step is left, it is taken.
FairSpec == Spec /\ WF_vars(Next)

(***************************************************************************)
(* What the properties below say about a source text: its tokens, the tree *)
(* they denote and how that tree is written.                               *)
(***************************************************************************)
IsAtom(tok) == tok.type \in {"IDENT", "INT", "TRUE", "FALSE"}

IsInfixOp(tok) ==
  tok.type \in {"PLUS", "MINUS", "ASTERISK", "SLASH", "LT", "GT", "EQ",
                "NotEq"}

IsPrefixOp(tok) == tok.type \in {"BANG", "MINUS"}

\* Equals < LtGt < Sum < Product
Level(tok) ==
  CASE tok.type \in {"EQ", "NotEq"} -> 1
    [] tok.type \in {"LT", "GT"} -> 2
    [] tok.type \in {"PLUS", "MINUS"} -> 3
    [] tok.type \in {"ASTERISK", "SLASH"} -> 4

OperatorName ==
  [PLUS |-> "Plus", MINUS |-> "Minus", SLASH |-> "Slash",
   ASTERISK |-> "Asterisk", GT |-> "Gt", LT |-> "Lt", EQ |-> "Equal",
   NotEq |-> "NotEq", BANG |-> "Bang"]

OperatorLevel ==
  [Plus |-> 3, Minus |-> 3, Slash |-> 4, Asterisk |-> 4, Gt |-> 2, Lt |-> 2,
   Equal |-> 1, NotEq |-> 1]

TokenText(tok) ==
  CASE tok.type = "IDENT" -> tok.str
    [] tok.type = "INT" -> ToString(tok.int)
    [] tok.type = "TRUE" -> "true"
    [] tok.type = "FALSE" -> "false"
    [] tok.type = "PLUS" -> "+"
    [] tok.type = "MINUS" -> "-"
    [] tok.type = "ASTERISK" -> "*"
    [] tok.type = "SLASH" -> "/"
    [] tok.type = "LT" -> "<"
    [] tok.type = "GT" -> ">"
    [] tok.type = "EQ" -> "=="
    [] tok.type = "NotEq" -> "!="
    [] tok.type = "BANG" -> "!"

Leaf(tok) ==
  CASE tok.type = "IDENT" -> [node |-> "Identifier", value |-> tok.str]
    [] tok.type = "INT" -> [node |-> "Integer", value |-> tok.int]
    [] tok.type = "TRUE" -> [node |-> "Boolean", value |-> TRUE]
    [] tok.type = "FALSE" -> [node |-> "Boolean", value |-> FALSE]

Bin(l, tok, r) ==
  [node |-> "Infix", left |-> l, operator |-> OperatorName[tok.type],
   right |-> r]

Un(tok, r) ==
  [node |-> "Prefix", operator |-> OperatorName[tok.type], right |-> r]

BinText(l, tok, r) == "(" \o l \o " " \o TokenText(tok) \o " " \o r \o ")"

UnText(tok, r) == "(" \o TokenText(tok) \o r \o ")"

OneStatement(e) == <<[stmt |-> "Expr", value |-> e]>>

\* the text without one closing semicolon
Clause(toks) ==
  IF toks # <<>> /\ toks[Len(toks)].type = "SEMICOLON"
    THEN SubSeq(toks, 1, Len(toks) - 1)
    ELSE toks

\* whether toks has the token kinds kinds, position by position; a kind is
\* "atom", "op", "pre" or a token type
HasForm(toks, kinds) ==
  /\ Len(toks) = Len(kinds)
  /\ \A i \in 1..Len(kinds) :
       CASE kinds[i] = "atom" -> IsAtom(toks[i])
         [] kinds[i] = "op" -> IsInfixOp(toks[i])
         [] kinds[i] = "pre" -> IsPrefixOp(toks[i])
         [] OTHER -> toks[i].type = kinds[i]

\* the parse of the whole text has ended with the single statement e,
\* written txt, and no error
ParsedAs(e, txt) ==
  /\ errors = <<>>
  /\ program = OneStatement(e)
  /\ RenderProgram(program) = txt

(***************************************************************************)
(* C1: a op1 b op2 c with op1 and op2 of equal precedence parses without   *)
(* error to infix(infix(a, op1, b), op2, c), written ((a op1 b) op2 c).    *)
(***************************************************************************)
C1_LeftAssociative ==
  LET s == Clause(lexed) IN
  (Done /\ HasForm(s, <<"atom", "op", "atom", "op", "atom">>)
        /\ Level(s[2]) = Level(s[4]))
    => ParsedAs(Bin(Bin(Leaf(s[1]), s[2], Leaf(s[3])), s[4], Leaf(s[5])),
                BinText(BinText(TokenText(s[1]), s[2], TokenText(s[3])),
                        s[4], TokenText(s[5])))

C1_Witness ==
  /\ Done
  /\ lexed = <<IDENT("a"), Tok("ASTERISK"), IDENT("b"), Tok("SLASH"),
               IDENT("c")>>
  /\ RenderProgram(program) = "((a * b) / c)"

(***************************************************************************)
(* C2: in a op1 b op2 c the operator of higher precedence binds first:     *)
(* with op1 lower than op2 the tree is infix(a, op1, infix(b, op2, c)),    *)
(* with op1 higher than op2 it is infix(infix(a, op1, b), op2, c).         *)
(***************************************************************************)
C2_PrecedenceOrder ==
  LET s == Clause(lexed) IN
  (Done /\ HasForm(s, <<"atom", "op", "atom", "op", "atom">>))
    => /\ Level(s[2]) < Level(s[4]) =>
            ParsedAs(Bin(Leaf(s[1]), s[2], Bin(Leaf(s[3]), s[4], Leaf(s[5]))),
                     BinText(TokenText(s[1]), s[2],
                             BinText(TokenText(s[3]), s[4], TokenText(s[5]))))
       /\ Level(s[2]) > Level(s[4]) =>
            ParsedAs(Bin(Bin(Leaf(s[1]), s[2], Leaf(s[3])), s[4], Leaf(s[5])),
                     BinText(BinText(TokenText(s[1]), s[2], TokenText(s[3])),
                             s[4], TokenText(s[5])))

C2_Witness ==
  /\ Done
  /\ lexed = <<IDENT("a"), Tok("PLUS"), IDENT("b"), Tok("ASTERISK"),
               IDENT("c")>>
  /\ RenderProgram(program) = "(a + (b * c))"

(***************************************************************************)
(* C3: ( e ) parses to the tree of e, with no node for the group, and is   *)
(* one operand of the operators around it whatever their precedence:       *)
(* ( a op1 b ) op2 c is infix(infix(a, op1, b), op2, c) and                *)
(* a op1 ( b op2 c ) is infix(a, op1, infix(b, op2, c)), without error.    *)
(***************************************************************************)
C3_GroupOverridesPrecedence ==
  LET s == Clause(lexed) IN
  Done =>
    /\ HasForm(s, <<"LPAREN", "atom", "op", "atom", "RPAREN">>) =>
         ParsedAs(Bin(Leaf(s[2]), s[3], Leaf(s[4])),
                  BinText(TokenText(s[2]), s[3], TokenText(s[4])))
    /\ HasForm(s, <<"LPAREN", "atom", "op", "atom", "RPAREN", "op", "atom">>)
         => ParsedAs(Bin(Bin(Leaf(s[2]), s[3], Leaf(s[4])), s[6], Leaf(s[7])),
                     BinText(BinText(TokenText(s[2]), s[3], TokenText(s[4])),
                             s[6], TokenText(s[7])))
    /\ HasForm(s, <<"atom", "op", "LPAREN", "atom", "op", "atom", "RPAREN">>)
         => ParsedAs(Bin(Leaf(s[1]), s[2], Bin(Leaf(s[4]), s[5], Leaf(s[6]))),
                     BinText(TokenText(s[1]), s[2],
                             BinText(TokenText(s[4]), s[5], TokenText(s[6]))))

C3_Witness ==
  /\ Done
  /\ lexed = <<Tok("LPAREN"), IDENT("a"), Tok("PLUS"), INT(2), Tok("RPAREN"),
               Tok("ASTERISK"), IDENT("c")>>
  /\ RenderProgram(program) = "((a + 2) * c)"

(***************************************************************************)
(* C4: a prefix operator takes only the operand next to it: p a op b is    *)
(* infix(prefix(p, a), op, b) for every infix operator op, and stacked     *)
(* prefixes nest right to left, p1 p2 a being prefix(p1, prefix(p2, a)).   *)
(***************************************************************************)
C4_PrefixBindsTighter ==
  LET s == Clause(lexed) IN
  Done =>
    /\ HasForm(s, <<"pre", "atom", "op", "atom">>) =>
         ParsedAs(Bin(Un(s[1], Leaf(s[2])), s[3], Leaf(s[4])),
                  BinText(UnText(s[1], TokenText(s[2])), s[3],
                          TokenText(s[4])))
    /\ HasForm(s, <<"pre", "pre", "atom">>) =>
         ParsedAs(Un(s[1], Un(s[2], Leaf(s[3]))),
                  UnText(s[1], UnText(s[2], TokenText(s[3]))))
    /\ HasForm(s, <<"pre", "pre", "atom", "op", "atom">>) =>
         ParsedAs(Bin(Un(s[1], Un(s[2], Leaf(s[3]))), s[4], Leaf(s[5])),
                  BinText(UnText(s[1], UnText(s[2], TokenText(s[3]))), s[4],
                          TokenText(s[5])))

C4_Witness ==
  /\ Done
  /\ lexed = <<Tok("MINUS"), IDENT("a"), Tok("PLUS"), IDENT("b")>>
  /\ RenderProgram(program) = "((-a) + b)"

(***************************************************************************)
(* C5: a well-formed if ( condition ) { consequence }, with or without     *)
(* else { alternative }, parses without error to an if-expression with     *)
(* that condition and consequence; the alternative is there exactly when   *)
(* ELSE follows the consequence block, and is then the block parsed.       *)
(***************************************************************************)
Block(stmts) == [statements |-> stmts]

If(c, t, e) ==
  [node |-> "If", condition |-> c, consequence |-> t, alternative |-> e]

IfHead == <<"IF", "LPAREN", "atom", "op", "atom", "RPAREN", "LBRACE">>

C5_IfExpression ==
  LET s == Clause(lexed)
      cond == Bin(Leaf(s[3]), s[4], Leaf(s[5]))
  IN
  Done =>
    /\ HasForm(s, IfHead \o <<"RBRACE">>) =>
         errors = <<>> /\ program = OneStatement(If(cond, Block(<<>>), <<>>))
    /\ HasForm(s, IfHead \o <<"atom", "RBRACE">>) =>
         /\ errors = <<>>
         /\ program =
              OneStatement(If(cond, Block(OneStatement(Leaf(s[8]))), <<>>))
    /\ HasForm(s, IfHead \o <<"atom", "RBRACE", "ELSE", "LBRACE", "atom",
                              "RBRACE">>) =>
         /\ errors = <<>>
         /\ program =
              OneStatement(If(cond, Block(OneStatement(Leaf(s[8]))),
                              <<Block(OneStatement(Leaf(s[12])))>>))
    /\ HasForm(s, IfHead \o <<"atom", "RBRACE", "ELSE", "LBRACE",
                              "RBRACE">>) =>
         /\ errors = <<>>
         /\ program =
              OneStatement(If(cond, Block(OneStatement(Leaf(s[8]))),
                              <<Block(<<>>)>>))
    /\ HasForm(s, <<"IF", "LPAREN", "atom", "RPAREN", "LBRACE", "IF",
                    "LPAREN", "atom", "RPAREN", "LBRACE", "atom", "RBRACE",
                    "ELSE", "LBRACE", "atom", "RBRACE", "RBRACE", "ELSE",
                    "LBRACE", "atom", "RBRACE">>) =>
         /\ errors = <<>>
         /\ program =
              OneStatement(
                If(Leaf(s[3]),
                   Block(OneStatement(
                     If(Leaf(s[8]), Block(OneStatement(Leaf(s[11]))),
                        <<Block(OneStatement(Leaf(s[15])))>>))),
                   <<Block(OneStatement(Leaf(s[20])))>>))

C5_Witness ==
  /\ Done
  /\ lexed = <<Tok("IF"), Tok("LPAREN"), IDENT("x"), Tok("LT"), IDENT("y"),
               Tok("RPAREN"), Tok("LBRACE"), IDENT("x"), Tok("RBRACE"),
               Tok("ELSE"), Tok("LBRACE"), IDENT("y"), Tok("RBRACE")>>
  /\ errors = <<>>
  /\ Len(program) = 1
  /\ program[1].value.alternative =
       <<Block(OneStatement([node |-> "Identifier", value |-> "y"]))>>

(***************************************************************************)
(* C6: statements separated by ; are parsed one by one, in source order:   *)
(* the infix loop never steps onto a SEMICOLON, and a op b ; p c op d      *)
(* gives the two statements (a op b) and ((p c) op d) without error.       *)
(***************************************************************************)
C6_StatementsIndependent ==
  /\ ~(At("parse_infix", "entry") /\ current_token.type = "SEMICOLON")
  /\ LET s == Clause(lexed) IN
     Done =>
       /\ HasForm(s, <<"atom", "SEMICOLON", "atom">>) =>
            /\ errors = <<>>
            /\ program = OneStatement(Leaf(s[1])) \o OneStatement(Leaf(s[3]))
       /\ HasForm(s, <<"atom", "op", "atom", "SEMICOLON", "pre", "atom", "op",
                       "atom">>) =>
            /\ errors = <<>>
            /\ program =
                 OneStatement(Bin(Leaf(s[1]), s[2], Leaf(s[3])))
                   \o OneStatement(Bin(Un(s[5], Leaf(s[6])), s[7], Leaf(s[8])))
            /\ RenderProgram(program) =
                 BinText(TokenText(s[1]), s[2], TokenText(s[3]))
                   \o BinText(UnText(s[5], TokenText(s[6])), s[7],
                              TokenText(s[8]))

C6_Witness ==
  /\ Done
  /\ lexed = <<INT(3), Tok("PLUS"), INT(4), Tok("SEMICOLON"), Tok("MINUS"),
               INT(5), Tok("ASTERISK"), INT(5)>>
  /\ Len(program) = 2
  /\ RenderProgram(program) = "(3 + 4)((-5) * 5)"

(***************************************************************************)
(* C7: x op y is one infix node with left x, right y and the operator of   *)
(* the token op, for each of the eight operator tokens; the right operand  *)
(* of an infix operator is parsed at that operator's own precedence.       *)
(***************************************************************************)
C7_InfixRule ==
  /\ \A i \in 1..(Len(stack) - 1) :
       (stack[i].fn = "parse_infix" /\ stack[i].pc = "right_done") =>
         /\ stack[i + 1].fn = "parse_expression"
         /\ stack[i + 1].op = OperatorLevel[stack[i].operator]
  /\ LET s == Clause(lexed) IN
     (Done /\ HasForm(s, <<"atom", "op", "atom">>)) =>
       /\ errors = <<>>
       /\ program =
            OneStatement([node |-> "Infix", left |-> Leaf(s[1]),
                          operator |-> OperatorName[s[2].type],
                          right |-> Leaf(s[3])])

C7_Witness ==
  /\ Done
  /\ lexed = <<INT(1), Tok("NotEq"), Tok("FALSE")>>
  /\ program =
       OneStatement([node |-> "Infix",
                     left |-> [node |-> "Integer", value |-> 1],
                     operator |-> "NotEq",
                     right |-> [node |-> "Boolean", value |-> FALSE]])

(***************************************************************************)
(* C8: parse_expression entered on a token other than IDENT, INT, TRUE,    *)
(* FALSE, BANG, MINUS, LPAREN, IF appends "no prefix parse function for    *)
(* <token>" to the errors, returns no expression and advances no token.    *)
(***************************************************************************)
C8_NoPrefixRule ==
  [][(At("parse_expression", "entry")
        /\ current_token.type \notin
             {"IDENT", "INT", "TRUE", "FALSE", "BANG", "MINUS", "LPAREN",
              "IF"})
       => /\ errors' =
               Append(errors,
                      "no prefix parse function for " \o current_token.type)
          /\ ret' = <<>>
          /\ stack' = SubSeq(stack, 1, Len(stack) - 1)
          /\ UNCHANGED <<current_token, peek_token, lexed, exhausted>>]_vars

C8_Witness ==
  /\ Done
  /\ lexed = <<Tok("LPAREN"), Tok("FUNCTION")>>
  /\ errors # <<>>
  /\ errors[1] = "no prefix parse function for FUNCTION"
  /\ program = <<>>

(***************************************************************************)
(* C9: when the token after the inside of a group is not RPAREN, an error  *)
(* is recorded and parse_grouped_expression returns no expression, also    *)
(* when the inside parsed to an expression.                                *)
(***************************************************************************)
C9_MissingRParen ==
  [][(At("parse_grouped_expression", "inner_done")
        /\ peek_token.type # "RPAREN")
       => /\ Len(errors') = Len(errors) + 1
          /\ SubSeq(errors', 1, Len(errors)) = errors
          /\ ret' = <<>>
          /\ stack' = SubSeq(stack, 1, Len(stack) - 1)]_vars

C9_Witness ==
  /\ Done
  /\ lexed = <<Tok("LPAREN"), IDENT("a"), Tok("PLUS"), INT(2)>>
  /\ Len(errors) = 1
  /\ program = <<>>

(***************************************************************************)
(* C10: after the consequence block, a token other than ELSE records no    *)
(* error and the if-expression is returned without alternative; ELSE       *)
(* followed by a token other than LBRACE records an error and the          *)
(* if-expression yields nothing.                                           *)
(***************************************************************************)
C10_ElseAsymmetry ==
  [][At("parse_if_expression", "consequence_done")
       => /\ peek_token.type # "ELSE" =>
               /\ errors' = errors
               /\ stack' = SubSeq(stack, 1, Len(stack) - 1)
               /\ Len(ret') = 1
               /\ ret'[1].node = "If"
               /\ ret'[1].alternative = <<>>
               /\ <<ret'[1].condition>> = stack[Len(stack)].condition
          /\ (peek_token.type = "ELSE"
                /\ (IF Len(lexed') > Len(lexed)
                      THEN lexed'[Len(lexed) + 1].type
                      ELSE "EOF") # "LBRACE") =>
               /\ Len(errors') = Len(errors) + 1
               /\ stack' = SubSeq(stack, 1, Len(stack) - 1)
               /\ ret' = <<>>]_vars

C10_Witness ==
  /\ Done
  /\ lexed = <<Tok("IF"), Tok("LPAREN"), IDENT("x"), Tok("LT"), IDENT("y"),
               Tok("RPAREN"), Tok("LBRACE"), IDENT("x"), Tok("RBRACE"),
               Tok("ELSE"), IDENT("y")>>
  /\ Len(errors) = 1
  /\ program = OneStatement([node |-> "Identifier", value |-> "y"])

(***************************************************************************)
(* C11: errors are accumulated.  No step removes or overwrites an entry of *)
(* the error list: the list before a step is a prefix of the list after    *)
(* it.  A step that records an error only makes the construct it is in     *)
(* return no node, leaving the statements parsed so far in place, and the  *)
(* statements after a failed one are still parsed.                         *)
(***************************************************************************)
C11_ErrorsAccumulate ==
  [][/\ Len(errors') >= Len(errors)
     /\ SubSeq(errors', 1, Len(errors)) = errors
     /\ errors' # errors =>
          /\ Len(errors') = Len(errors) + 1
          /\ ret' = <<>>
          /\ Len(stack) >= 2
          /\ stack' = SubSeq(stack, 1, Len(stack) - 1)
          /\ program' = program
     /\ (stack' = <<>> /\ HasForm(lexed', <<"ILLEGAL", "atom">>)) =>
          /\ errors' = <<"no prefix parse function for ILLEGAL">>
          /\ program' = OneStatement(Leaf(lexed'[2]))
     /\ (stack' = <<>> /\ HasForm(lexed', <<"RPAREN", "RPAREN", "atom">>)) =>
          /\ errors' = <<"no prefix parse function for RPAREN",
                         "no prefix parse function for RPAREN">>
          /\ program' = OneStatement(Leaf(lexed'[3]))
     /\ (stack' = <<>>
           /\ HasForm(lexed', <<"atom", "SEMICOLON", "RPAREN", "atom">>)) =>
          /\ errors' = <<"no prefix parse function for RPAREN">>
          /\ program' =
               OneStatement(Leaf(lexed'[1])) \o OneStatement(Leaf(lexed'[4]))]_vars

C11_Witness ==
  /\ Done
  /\ lexed = <<Tok("RPAREN"), Tok("RPAREN"), IDENT("x")>>
  /\ Len(errors) = 2
  /\ program = OneStatement([node |-> "Identifier", value |-> "x"])

(***************************************************************************)
(* C12: no silent failure.  Whenever a call of parse_expression returns no *)
(* expression, the error list is longer than it was when the call was      *)
(* made; and parse_infix is never entered on a token that is not one of    *)
(* the eight operator tokens, so its arm that returns None without an      *)
(* error is never taken.                                                   *)
(***************************************************************************)
C12_NoSilentFailure ==
  [][/\ (stack # <<>>
           /\ stack[Len(stack)].fn = "parse_expression"
           /\ stack' = SubSeq(stack, 1, Len(stack) - 1)
           /\ ret' = <<>>)
          => Len(errors') > stack[Len(stack)].errors_at_entry
     /\ (stack # <<>>
           /\ stack[Len(stack)].fn = "parse_infix"
           /\ stack[Len(stack)].pc = "entry")
          => current_token.type \in
               {"PLUS", "MINUS", "SLASH", "ASTERISK", "GT", "LT", "EQ",
                "NotEq"}]_vars

C12_Witness ==
  /\ Done
  /\ lexed = <<IDENT("a"), Tok("PLUS")>>
  /\ errors = <<"no prefix parse function for EOF">>
  /\ program = <<>>

(***************************************************************************)
(* C13: parsing terminates.  The token cursor never moves backwards; every *)
(* iteration of the infix loop consumes one token before it calls          *)
(* parse_infix; every call of parse_expression made by parse_infix,        *)
(* parse_prefix_expression, parse_grouped_expression or                    *)
(* parse_if_expression comes after at least one consumed token; on EOF     *)
(* parse_expression returns at once, as current token (no prefix rule) and *)
(* as peek token (Lowest precedence); and every parse comes to its end.    *)
(***************************************************************************)
\* the position in the source text of the current token; all EOF share the
\* position after the last token
Cursor ==
  IF current_token.type = "EOF" THEN Len(lexed) + 1
  ELSE IF peek_token.type = "EOF" THEN Len(lexed)
  ELSE Len(lexed) - 1

C13_Terminates ==
  /\ [][/\ Cursor' >= Cursor
        /\ (At("parse_expression", "loop") /\ Len(stack') > Len(stack)) =>
             Cursor' = Cursor + 1
        /\ (stack # <<>>
              /\ stack[Len(stack)].fn \in
                   {"parse_infix", "parse_prefix_expression",
                    "parse_grouped_expression", "parse_if_expression"}
              /\ Len(stack') = Len(stack) + 1
              /\ stack'[Len(stack')].fn = "parse_expression") =>
             Cursor' > Cursor
        /\ (At("parse_expression", "entry") /\ current_token.type = "EOF") =>
             stack' = SubSeq(stack, 1, Len(stack) - 1)
        /\ (At("parse_expression", "loop") /\ peek_token.type = "EOF") =>
             stack' = SubSeq(stack, 1, Len(stack) - 1)]_vars
  /\ <>(stack = <<>>)

C13_Witness ==
  /\ Done
  /\ lexed = <<Tok("MINUS"), Tok("BANG")>>
  /\ errors = <<"no prefix parse function for EOF">>
  /\ program = <<>>

====
